---------------------------- MODULE Spec2Model ----------------------------
(***************************************************************************)
(* Model of mqclient_rabbitmq/rabbitmq.py: one RabbitMQPub / RabbitMQSub   *)
(* instance (connection + channel), the resilient wrappers try_call and    *)
(* try_yield, and RabbitMQSub.message_generator driven by a consumer.      *)
(* The pika client and the broker are the environment: every broker call   *)
(* may succeed or raise, chosen nondeterministically, except that a call   *)
(* on a channel whose connection is closed or replaced always raises.      *)
(***************************************************************************)
EXTENDS Naturals, Sequences, FiniteSets

\* mqclient.backend_interface.TRY_ATTEMPTS, imported at rabbitmq.py:13
TRY_ATTEMPTS == 3

\* Bound on the number of deliveries the broker makes on one channel, and on
\* the number of messages one message_generator pulls from the broker.
MaxItems == 3

Roles == {"pub", "sub"}
Values == {"v1", "v2"}
\* The payload of the k-th delivery the broker makes to one generator.
Bodies == <<"A", "B", "C", "D", "E">>
BodyOf(k) == Bodies[((k - 1) % Len(Bodies)) + 1]

\* pika.exceptions.ConnectionClosedByBroker and the other AMQPConnectionError
\* subclasses: the two except-clauses that fall through to the recovery code.
Transient == {"ConnectionClosedByBroker", "AMQPConnectionError"}

\* The prefetch bound create_sub_queue is called with: one that differs from
\* the 1 that RabbitMQSub.__init__ assigns (line 131).
Prefetches == {2}

PubOps == {"send_message"}
SubOps == {"get_message", "ack_message", "reject_message"}

\* A unit of work handed to try_call, described by what it does on successive
\* invocations: `fails` transient failures, then `final` ("ok" returns `val`,
\* "fatal" raises AMQPChannelError).
Funcs ==
    [fails : 0..TRY_ATTEMPTS, final : {"ok", "fatal"}, val : Values]

NoFunc == [fails |-> 0, final |-> "ok", val |-> "v1"]

VARIABLES
    role,      \* which class the instance is: RabbitMQPub or RabbitMQSub
    queue,     \* the instance: self.connection, self.channel
    prefetch,  \* self.prefetch of a RabbitMQSub (0: a RabbitMQPub has none)
    cn,        \* the latest connect() call: its result, and the set-up of the channel in self.channel
    life,      \* what the caller has done with the instance so far
    cl,        \* the latest close() call: state before, broker calls made, result
    broker,    \* the broker's view of the instance's channel: deliveries made, unacknowledged ones
    other,     \* another task of the event loop has run since the instance's latest step
    tc,        \* the try_call invocation in flight (or the last one finished)
    mg,        \* the message_generator (and its try_yield) in flight
    delivered, \* the deliveries the broker made to the generator, in order
    observed,  \* what the generator has handed to its consumer, in order
    signals    \* the consumer's answer to each hand-off, in order

vars == <<role, queue, prefetch, cn, life, cl, broker, other, tc, mg, delivered, observed, signals>>
opvars == <<tc>>
genvars == <<mg, delivered, observed, signals>>

----------------------------------------------------------------------------
\* RabbitMQ.__init__: no connection, no channel.
NewQueue == [connection |-> "None", channel |-> "None"]

\* self.channel is "chan" when it is a channel of the connection object now in
\* self.connection and "stale" when it is a channel of a connection object
\* that self.connection no longer refers to.  Line 45 replaces the connection
\* object: every channel obtained before belongs to the old one.
Superseded(c) == IF c = "None" THEN "None" ELSE "stale"

\* A channel can carry a broker call when it is a channel of the instance's
\* present connection and that connection is open.
Live(c, q) == c = "chan" /\ q.connection = "open"

\* The set-up of a channel just obtained from connection.channel(): queue not
\* declared through it, no confirm mode, no prefetch bound (qos 0).
NewChannel == [declared |-> FALSE, confirm |-> FALSE, qos |-> 0]

\* channel.queue_declare(queue=self.queue, durable=False)
queue_declare(c) == [c EXCEPT !.declared = TRUE]

\* channel.confirm_delivery()
confirm_delivery(c) == [c EXCEPT !.confirm = TRUE]

\* channel.basic_qos(prefetch_count=self.prefetch, global_qos=True)
basic_qos_default(c, n) == [c EXCEPT !.qos = 1]

basic_qos(c, n) == [c EXCEPT !.qos = n]

\* The role's set-up calls on channel c (lines 83-84 and 140-141), n being
\* self.prefetch: the first call raises, the second raises, or both return.
role_setup(r, c, n) ==
    {[err |-> "AMQPChannelError", c |-> c],
     [err |-> "AMQPChannelError", c |-> queue_declare(c)],
     [err |-> "ok", c |-> IF r = "pub" THEN confirm_delivery(queue_declare(c))
                          ELSE basic_qos(queue_declare(c), n)]}

\* RabbitMQ.connect followed by the role's set-up calls.  Each broker call may
\* raise; what was assigned before the raise stays assigned.  `new` tells
\* whether line 45 assigned a new connection object, `c` is the set-up of the
\* channel in self.channel afterwards (c0 before the call).
connect(r, q, c0, n) ==
    {[err |-> "AMQPConnectionError", q |-> q, new |-> FALSE, c |-> c0]}  \* BlockingConnection(...) raises
    \cup {[err |-> e, new |-> TRUE, c |-> c0,                      \* connection.channel() raises
           q |-> [connection |-> "open", channel |-> Superseded(q.channel)]]
            : e \in {"AMQPConnectionError"}}
    \cup {[err |-> o.err, new |-> TRUE, c |-> o.c,                 \* set-up raises / all fine
           q |-> [connection |-> "open", channel |-> "chan"]]
            : o \in role_setup(r, NewChannel, n)}

\* The record of one connect() call with outcome o.
NoConnect == [err |-> "none", c |-> NewChannel]
Connected(o) == [err |-> o.err, c |-> o.c]

\* What connection.close() and channel.cancel() can raise.
PrimitiveErrors == {"AMQPError"}

\* Lines 59-60 and 153-154: `except Exception as e: raise ClosingFailedExcpetion() from e`.
close_wrap_raw(e) == e

close_wrap(e) == "ClosingFailedExcpetion"

\* RabbitMQ.close (lines 50-60): no connection, a connection already closed,
\* or connection.close(), which may raise (and then may or may not have
\* closed the connection).
\* `log` lists the broker calls the close() made, in order, each with "ok" or
\* the exception it raised.
BaseClose_unchecked(q) ==
    IF q.connection = "None"
    THEN {[err |-> "ClosingFailedExcpetion", q |-> q, log |-> <<>>]}
    ELSE {[err |-> "ok", q |-> [q EXCEPT !.connection = "closed"],
           log |-> << <<"connection.close", "ok">> >>]}
         \cup {[err |-> close_wrap(e), q |-> [q EXCEPT !.connection = c],
                log |-> << <<"connection.close", e>> >>]
                 : c \in {"open", "closed"}, e \in PrimitiveErrors}

BaseClose(q) ==
    IF q.connection = "None"
    THEN {[err |-> "ClosingFailedExcpetion", q |-> q, log |-> <<>>]}
    ELSE IF q.connection = "closed"
    THEN {[err |-> "AlreadyClosedExcpetion", q |-> q, log |-> <<>>]}
    ELSE {[err |-> "ok", q |-> [q EXCEPT !.connection = "closed"],
           log |-> << <<"connection.close", "ok">> >>]}
         \cup {[err |-> close_wrap(e), q |-> [q EXCEPT !.connection = c],
                log |-> << <<"connection.close", e>> >>]
                 : c \in {"open", "closed"}, e \in PrimitiveErrors}

\* RabbitMQPub.close / RabbitMQSub.close: the base close first, then (Sub) the
\* channel check and channel.cancel().
close(r, q) ==
    IF r = "pub"
    THEN BaseClose(q)
    ELSE UNION { IF o.err # "ok"
                 THEN {o}
                 ELSE IF o.q.channel = "None"
                 THEN {[err |-> "ClosingFailedExcpetion", q |-> o.q, log |-> o.log]}
                 ELSE {[err |-> "ok", q |-> o.q,
                        log |-> Append(o.log, <<"channel.cancel", "ok">>)]}
                      \cup {[err |-> close_wrap(e), q |-> o.q,
                             log |-> Append(o.log, <<"channel.cancel", e>>)]
                              : e \in PrimitiveErrors}
               : o \in BaseClose(q) }

\* A new channel has no deliveries; the broker takes back the unacknowledged
\* deliveries of a channel whose connection is closed or replaced.
NoDeliveries == [tag |-> 0, unacked |-> {}]
BrokerAfter(q, new) == IF new \/ q.connection # "open" THEN NoDeliveries ELSE broker

\* The record of one close() call: who called it (the caller of the instance,
\* try_call or try_yield), the instance before it, its outcome o, and the
\* result of the close() the caller made immediately before, if any.
NoClose == [by |-> "none", pre |-> NewQueue, err |-> "none", log |-> <<>>, prev |-> "none"]
Closed(by, q, o) ==
    [by |-> by, pre |-> q, err |-> o.err, log |-> o.log,
     prev |-> IF by = "caller" /\ cl.by = "caller" THEN cl.err ELSE "none"]

----------------------------------------------------------------------------
TcIdle == tc.pc \in {"idle", "returned", "raised"}
\* calls, closes, connects count the broker-facing steps of the invocation and
\* last is the latest of them with its outcome.
\* life is the instance's lifecycle state when the operation was invoked, chan
\* the channel the unit of work was bound to (as it stands now: "chan" or
\* "stale"), on the channel the latest invocation of the unit of work ran on,
\* live whether the bound channel could carry a broker call at that moment.
IdleTc == [pc |-> "idle", op |-> "none", i |-> 0, func |-> NoFunc,
           calls |-> 0, closes |-> 0, connects |-> 0, last |-> <<"none", "none">>,
           result |-> "none", err |-> "none",
           life |-> "none", chan |-> "None", on |-> "none", msg_id |-> 1,
           live |-> FALSE]

GenSuspended == mg.pc \in {"yield_msg", "yield_none"}
GenTerminal == mg.pc \in {"ended", "raised", "closed"}
GenAtRest == mg.pc = "unstarted" \/ GenSuspended \/ GenTerminal
\* recoveries counts the stream failures (and ends) try_yield caught; closes and
\* connects the close() and connect() calls made; last is the latest step;
\* ends counts the times the stream ran out, streak the connection errors
\* caught since the latest item was forwarded.
IdleMg == [pc |-> "unstarted", propagate_error |-> TRUE, i |-> 0, tag |-> 0,
           recoveries |-> 0, closes |-> 0, connects |-> 0,
           last |-> <<"none", "none">>, err |-> "none",
           life |-> "none", chan |-> "None", on |-> "none", ends |-> 0, streak |-> 0]

Init ==
    /\ role \in Roles
    /\ queue = NewQueue
    /\ prefetch = IF role = "sub" THEN 1 ELSE 0     \* line 131
    /\ cn = NoConnect
    /\ life = "new"
    /\ cl = NoClose
    /\ broker = NoDeliveries
    /\ other = FALSE
    /\ tc = IdleTc
    /\ mg = IdleMg
    /\ delivered = <<>>
    /\ observed = <<>>
    /\ signals = <<>>

\* The factory returns the instance only when q.connect() returned (lines
\* 361-362 and 381-382): when it raised the caller holds no instance.
Usable == life # "failed"

\* Backend.create_pub_queue / create_sub_queue: q.connect() on the new instance,
\* after q.prefetch = prefetch for a subscriber.
Connect ==
    /\ TcIdle
    /\ GenAtRest
    /\ queue.connection = "None"
    /\ \E n \in (IF role = "sub" THEN Prefetches ELSE {0}) :
       \E o \in connect(role, queue, cn.c, n) :
         /\ prefetch' = n
         /\ cn' = Connected(o)
         /\ queue' = o.q
         /\ broker' = BrokerAfter(o.q, o.new)
         /\ life' = IF o.err = "ok" THEN "connected" ELSE "failed"
    /\ cl' = NoClose
    /\ other' = FALSE
    /\ UNCHANGED <<role, opvars, genvars>>

\* The caller's close().
Close ==
    /\ TcIdle
    /\ GenAtRest
    /\ Usable
    /\ \E o \in close(role, queue) :
         /\ queue' = o.q
         /\ broker' = BrokerAfter(o.q, FALSE)
         /\ cl' = Closed("caller", queue, o)
         /\ life' = IF o.err = "ok" THEN "closed" ELSE life
    /\ other' = FALSE
    /\ UNCHANGED <<role, prefetch, cn, opvars, genvars>>

\* `if not self.channel: raise RuntimeError("queue is not connected")`,
\* lines 104, 179, 201, 214 and 233.
not_connected_never(q) == FALSE

not_connected(q) == q.channel = "None"

\* send_message / get_message / ack_message / reject_message up to the call of
\* try_call: the channel check, then the unit of work is bound.
StartOp ==
    /\ tc.pc = "idle"
    /\ mg.pc = "unstarted"
    /\ Usable
    /\ \E op \in (IF role = "pub" THEN PubOps ELSE SubOps), f \in Funcs, k \in 1..MaxItems :
         /\ op \in {"ack_message", "reject_message"} \/ k = 1
         /\ IF not_connected(queue)
            THEN tc' = [IdleTc EXCEPT !.pc = "raised", !.op = op, !.err = "RuntimeError",
                                      !.life = life, !.msg_id = k]
            ELSE tc' = [IdleTc EXCEPT !.pc = "try", !.op = op, !.func = f,
                                      !.life = life, !.chan = queue.channel, !.msg_id = k,
                                      !.live = Live(queue.channel, queue)]
    /\ cl' = NoClose
    /\ other' = FALSE
    /\ UNCHANGED <<role, prefetch, cn, queue, life, broker, genvars>>

\* The caller takes the result (or the exception) of the finished operation.
OpDone ==
    /\ tc.pc \in {"returned", "raised"}
    /\ tc' = IdleTc
    /\ other' = FALSE
    /\ UNCHANGED <<role, prefetch, cn, queue, life, cl, broker, genvars>>

----------------------------------------------------------------------------
\* try_call (lines 273-301)

\* What the i-th invocation (counting from 0) of the unit of work does.
FuncOutcome(f, n) ==
    IF n < f.fails THEN Transient
    ELSE IF f.final = "ok" THEN {"ok"} ELSE {"AMQPChannelError"}

\* The except clauses of try_call, lines 286-294.
try_call_except_broad(e) == "recover"

try_call_except(e) ==
    CASE e = "ConnectionClosedByBroker" -> "recover"
      [] e = "AMQPChannelError"         -> "raise"
      [] e = "AMQPConnectionError"      -> "recover"

\* `for i in range(TRY_ATTEMPTS)`: is there another attempt after attempt i?
try_call_more(i) == i + 1 < TRY_ATTEMPTS

\* What the return statement of line 285 hands back for the value v of func().
try_call_return(v) == v

\* A connection error leaves the connection as it was or closed (the broker
\* or the transport closed it before the error was raised).
AfterError(q) ==
    {q} \cup (IF q.connection = "open" THEN {[q EXCEPT !.connection = "closed"]} ELSE {})

\* A broker call on a channel that is not live raises, whatever it would
\* have done otherwise.
BrokerCall(c, q, planned) ==
    IF Live(c, q) THEN planned ELSE Transient \cup {"AMQPChannelError"}

\* The broker's bookkeeping for a call that went through.  basic_get hands
\* over the next message of the queue, if there is one and the channel's
\* delivery bound allows it; basic_ack(delivery_tag) and
\* basic_nack(delivery_tag), called with the delivery tag alone (lines 204,
\* 217: `multiple` keeps its default, False), settle that one delivery.
Settle(unacked, k, multiple) ==
    IF multiple THEN {j \in unacked : j > k} ELSE unacked \ {k}

basic_ack(b, k) == {[b EXCEPT !.unacked = Settle(@, k, FALSE)]}
basic_nack(b, k) == {[b EXCEPT !.unacked = Settle(@, k, FALSE)]}
basic_get(b) ==
    {b} \cup (IF b.tag < MaxItems
              THEN {[tag |-> b.tag + 1, unacked |-> b.unacked \cup {b.tag + 1}]}
              ELSE {})

BrokerEffect(op, b, k) ==
    CASE op = "get_message"    -> basic_get(b)
      [] op = "ack_message"    -> basic_ack(b, k)
      [] op = "reject_message" -> basic_nack(b, k)
      [] OTHER                 -> {b}

\* line 285: func()
TryCallFunc ==
    /\ tc.pc = "try"
    /\ \E e \in BrokerCall(tc.chan, queue, FuncOutcome(tc.func, tc.calls)) :
         LET t == [tc EXCEPT !.calls = @ + 1, !.last = <<"func", e>>, !.on = tc.chan] IN
         IF e = "ok"
         THEN /\ tc' = [t EXCEPT !.pc = "returned",
                                 !.result = try_call_return(tc.func.val)]
              /\ broker' \in BrokerEffect(tc.op, broker, tc.msg_id)
              /\ UNCHANGED queue
         ELSE IF try_call_except(e) = "raise"
         THEN /\ tc' = [t EXCEPT !.pc = "raised", !.err = e]
              /\ UNCHANGED <<queue, broker>>
         ELSE /\ tc' = [t EXCEPT !.pc = "close"]
              /\ queue' \in AfterError(queue)
              /\ broker' = BrokerAfter(queue', FALSE)
    /\ other' = FALSE
    /\ UNCHANGED <<role, prefetch, cn, life, cl, genvars>>

\* line 296: await queue.close()
TryCallClose ==
    /\ tc.pc = "close"
    /\ \E o \in close(role, queue) :
         LET t == [tc EXCEPT !.closes = @ + 1, !.last = <<"close", o.err>>] IN
         /\ queue' = o.q
         /\ broker' = BrokerAfter(o.q, FALSE)
         /\ cl' = Closed("try_call", queue, o)
         /\ tc' = IF o.err = "ok"
                  THEN [t EXCEPT !.pc = "sleep"]
                  ELSE [t EXCEPT !.pc = "raised", !.err = o.err]
    /\ other' = FALSE
    /\ UNCHANGED <<role, prefetch, cn, life, genvars>>

\* line 297: time.sleep(RETRY_DELAY)
TryCallSleep ==
    /\ tc.pc = "sleep"
    /\ tc' = [tc EXCEPT !.pc = "connect", !.last = <<"sleep", "ok">>]
    /\ other' = FALSE
    /\ UNCHANGED <<role, prefetch, cn, queue, life, cl, broker, genvars>>

\* line 298: await queue.connect(); then the next iteration, or lines 300-301.
TryCallConnect ==
    /\ tc.pc = "connect"
    /\ \E o \in connect(role, queue, cn.c, prefetch) :
         LET t == [tc EXCEPT !.connects = @ + 1, !.last = <<"connect", o.err>>,
                             !.chan = IF o.new THEN "stale" ELSE @] IN
         /\ queue' = o.q
         /\ cn' = Connected(o)
         /\ broker' = BrokerAfter(o.q, o.new)
         /\ tc' = IF o.err # "ok"
                  THEN [t EXCEPT !.pc = "raised", !.err = o.err]
                  ELSE IF try_call_more(tc.i)
                  THEN [t EXCEPT !.pc = "try", !.i = @ + 1]
                  ELSE [t EXCEPT !.pc = "raised", !.i = @ + 1,
                                 !.err = "ConnectionExhausted"]
    /\ other' = FALSE
    /\ UNCHANGED <<role, prefetch, life, cl, genvars>>

----------------------------------------------------------------------------
\* RabbitMQSub.message_generator (lines 220-270) over try_yield (lines 304-335)

\* What one step of channel.consume(...) can hand to try_yield: a delivery
\* (frame with a delivery tag, body as text or bytes), a frame without a
\* body, the inactivity-timeout tuple (None, None, None), or a frame that is
\* no pika frame (the unit test's mock.ANY, which has no delivery_tag).
Delivery(tag, kind, text) == [frame |-> <<"Frame", tag>>, body |-> <<kind, text>>]
NoBody(tag) == [frame |-> <<"Frame", tag>>, body |-> <<"None", "">>]
TimeoutItem == [frame |-> <<"None", 0>>, body |-> <<"None", "">>]
BadItem == [frame |-> <<"ANY", 0>>, body |-> <<"bytes", "foo, bar">>]

\* Python's None where a Message is expected.
NoneValue == [msg_id |-> 0, data |-> <<"None", "">>]

\* RabbitMQSub._to_message (lines 158-169): None for a missing frame or body,
\* text encoded to bytes, bytes kept.
to_message_untagged(x) ==
    IF x.frame[1] = "None" \/ x.body[1] = "None"
    THEN NoneValue
    ELSE IF x.body[1] = "str"
    THEN [msg_id |-> 0, data |-> <<"bytes", x.body[2]>>]
    ELSE [msg_id |-> 0, data |-> x.body]

to_message_frame_only(x) ==
    IF x.frame[1] = "None"
    THEN NoneValue
    ELSE IF x.body[1] = "str"
    THEN [msg_id |-> x.frame[2], data |-> <<"bytes", x.body[2]>>]
    ELSE [msg_id |-> x.frame[2], data |-> x.body]

_to_message(x) ==
    IF x.frame[1] = "None" \/ x.body[1] = "None"
    THEN NoneValue
    ELSE IF x.body[1] = "str"
    THEN [msg_id |-> x.frame[2], data |-> <<"bytes", x.body[2]>>]
    ELSE [msg_id |-> x.frame[2], data |-> x.body]

\* method_frame.delivery_tag (lines 167, 169) raises on a frame without one.
to_message_raises(x) == x.frame[1] = "ANY" /\ x.body[1] # "None"

\* The except clauses of try_yield, lines 320-328.
try_yield_except(e) ==
    CASE e = "ConnectionClosedByBroker" -> "recover"
      [] e = "AMQPChannelError"         -> "raise"
      [] e = "AMQPConnectionError"      -> "recover"

\* `for i in range(TRY_ATTEMPTS)` of try_yield.
try_yield_more(i) == i + 1 < TRY_ATTEMPTS

\* Lines 253-262: the consumer threw e into the generator suspended at
\* `yield msg`.
on_downstream_error_swallow(propagate_error, e) ==
    [pc |-> "yield_none", err |-> "none"]

on_downstream_error_skip(propagate_error, e) ==
    IF propagate_error THEN [pc |-> "raised", err |-> e]
    ELSE [pc |-> "fetch", err |-> "none"]

on_downstream_error(propagate_error, e) ==
    IF propagate_error THEN [pc |-> "raised", err |-> e]
    ELSE [pc |-> "yield_none", err |-> "none"]

\* Line 262 is outside the inner try: an exception thrown into the generator
\* suspended at `yield None` is caught by nothing but `except GeneratorExit`.
on_error_at_none(propagate_error, e) == [pc |-> "raised", err |-> e]

\* Lines 240 and 242 are outside the inner try as well: whatever try_yield or
\* the conversion raises leaves the generator, whatever propagate_error is.
on_upstream_error_sentinel(propagate_error, e) ==
    IF propagate_error THEN [pc |-> "raised", err |-> e]
    ELSE [pc |-> "yield_none", err |-> "none"]

on_upstream_error(propagate_error, e) == [pc |-> "raised", err |-> e]

\* Lines 267-270: GeneratorExit thrown in at a hand-off is caught, two lines
\* are logged and the generator returns; the instance q is not touched.
on_generator_exit_closing(q) ==
    [pc |-> "closed", err |-> "none", q |-> [q EXCEPT !.connection = "closed"]]

on_generator_exit(q) == [pc |-> "closed", err |-> "none", q |-> q]

DownstreamErrors == {"ValueError", "KeyError"}

\* The consumer calls message_generator(propagate_error=p) and asks for the
\* first item: the channel check of lines 233-234, then try_yield starts.
MgStart ==
    /\ role = "sub"
    /\ tc.pc = "idle"
    /\ mg.pc = "unstarted"
    /\ Usable
    /\ \E p \in BOOLEAN :
         mg' = IF not_connected(queue)
               THEN [IdleMg EXCEPT !.pc = "raised", !.propagate_error = p,
                                   !.err = "RuntimeError", !.life = life]
               ELSE [IdleMg EXCEPT !.pc = "fetch", !.propagate_error = p,
                                   !.life = life, !.chan = queue.channel]
    /\ cl' = NoClose
    /\ other' = FALSE
    /\ UNCHANGED <<role, prefetch, cn, queue, life, broker, opvars, delivered, observed, signals>>

\* The items the stream can hand over next: at most MaxItems deliveries.
StreamItems ==
    {TimeoutItem, NoBody(broker.tag + 1)}
    \cup (IF Len(delivered) < MaxItems /\ broker.tag < MaxItems
          THEN {Delivery(broker.tag + 1, kind, BodyOf(Len(delivered) + 1))
                  : kind \in {"str", "bytes"}}
          ELSE {})

ItemKind(x) ==
    IF x.frame[1] = "None" THEN "timeout"
    ELSE IF x.body[1] = "None" THEN "nobody" ELSE "msg"

\* Lines 318-319 and 240-251: the stream hands over an item, try_yield
\* forwards it, message_generator converts it and either breaks (None) or
\* yields the Message to the consumer.
MgItem ==
    /\ mg.pc = "fetch"
    /\ Live(mg.chan, queue)
    /\ \E x \in StreamItems :
         LET msg == _to_message(x)
             m == [mg EXCEPT !.last = <<"item", ItemKind(x)>>, !.on = mg.chan,
                             !.streak = 0,
                             !.tag = IF x.frame[1] = "Frame" THEN x.frame[2] ELSE @] IN
         /\ delivered' = IF ItemKind(x) = "msg" THEN Append(delivered, x) ELSE delivered
         /\ broker' = IF ItemKind(x) = "msg"
                      THEN [tag |-> x.frame[2], unacked |-> broker.unacked \cup {x.frame[2]}]
                      ELSE broker
         /\ IF msg = NoneValue
            THEN /\ mg' = [m EXCEPT !.pc = "ended"]
                 /\ UNCHANGED observed
            ELSE /\ mg' = [m EXCEPT !.pc = "yield_msg"]
                 /\ observed' = Append(observed, msg)
    /\ other' = FALSE
    /\ UNCHANGED <<role, prefetch, cn, queue, life, cl, opvars, signals>>

\* Line 242 on a delivery whose frame has no delivery_tag: the conversion
\* raises inside message_generator.
MgBadItem ==
    /\ mg.pc = "fetch"
    /\ Live(mg.chan, queue)
    /\ to_message_raises(BadItem)
    /\ LET r == on_upstream_error(mg.propagate_error, "AttributeError") IN
         /\ mg' = [mg EXCEPT !.pc = r.pc, !.err = r.err, !.last = <<"item", "bad">>,
                             !.on = mg.chan]
         /\ observed' = IF r.pc = "yield_none" THEN Append(observed, NoneValue)
                        ELSE observed
    /\ other' = FALSE
    /\ UNCHANGED <<role, prefetch, cn, queue, life, cl, broker, opvars, delivered, signals>>

\* The stream raises: a channel error is re-raised by try_yield (line 325)
\* and leaves message_generator; a connection error starts the recovery code.
MgStreamError ==
    /\ mg.pc = "fetch"
    /\ \E e \in Transient \cup {"AMQPChannelError"} :
         LET m == [mg EXCEPT !.last = <<"error", e>>, !.on = mg.chan]
             r == on_upstream_error(mg.propagate_error, e) IN
         IF try_yield_except(e) = "raise"
         THEN /\ mg' = [m EXCEPT !.pc = r.pc, !.err = r.err]
              /\ observed' = IF r.pc = "yield_none" THEN Append(observed, NoneValue)
                             ELSE observed
              /\ UNCHANGED <<queue, broker>>
         ELSE /\ mg' = [m EXCEPT !.pc = "ty_close", !.recoveries = @ + 1,
                                    !.streak = @ + 1]
              /\ queue' \in AfterError(queue)
              /\ broker' = BrokerAfter(queue', FALSE)
              /\ UNCHANGED observed
    /\ other' = FALSE
    /\ UNCHANGED <<role, prefetch, cn, life, cl, opvars, delivered, signals>>

\* func() has just been (re-)invoked and has handed over nothing yet.
Fresh == mg.last[1] \in {"none", "connect"}

\* try_yield's reaction to a stream that runs out, lines 318-330: nothing is
\* raised, control leaves the try statement and reaches line 330.
on_stream_end == "ty_close"

\* The stream runs out (StopIteration).  A stream on a channel that is not
\* live raises when it is started, and raises or runs out when resumed.
MgStreamEnd ==
    /\ mg.pc = "fetch"
    /\ Live(mg.chan, queue) \/ ~Fresh
    /\ mg' = [mg EXCEPT !.pc = on_stream_end, !.last = <<"end", "ok">>, !.on = mg.chan,
                        !.ends = @ + 1,
                        !.recoveries = IF on_stream_end = "ty_close" THEN @ + 1 ELSE @]
    /\ other' = FALSE
    /\ UNCHANGED <<role, prefetch, cn, queue, life, cl, broker, opvars, delivered, observed, signals>>

\* line 330: await queue.close()
TryYieldClose ==
    /\ mg.pc = "ty_close"
    /\ \E o \in close(role, queue) :
         LET m == [mg EXCEPT !.closes = @ + 1, !.last = <<"close", o.err>>]
             r == on_upstream_error(mg.propagate_error, o.err) IN
         /\ queue' = o.q
         /\ broker' = BrokerAfter(o.q, FALSE)
         /\ cl' = Closed("try_yield", queue, o)
         /\ mg' = IF o.err = "ok"
                  THEN [m EXCEPT !.pc = "ty_sleep"]
                  ELSE [m EXCEPT !.pc = r.pc, !.err = r.err]
         /\ observed' = IF o.err # "ok" /\ r.pc = "yield_none"
                        THEN Append(observed, NoneValue) ELSE observed
    /\ other' = FALSE
    /\ UNCHANGED <<role, prefetch, cn, life, opvars, delivered, signals>>

\* line 331: time.sleep(RETRY_DELAY)
TryYieldSleep ==
    /\ mg.pc = "ty_sleep"
    /\ mg' = [mg EXCEPT !.pc = "ty_connect", !.last = <<"sleep", "ok">>]
    /\ other' = FALSE
    /\ UNCHANGED <<role, prefetch, cn, queue, life, cl, broker, opvars, delivered, observed, signals>>

\* line 332: await queue.connect(); then func() again on the next iteration,
\* or lines 334-335.
TryYieldConnect ==
    /\ mg.pc = "ty_connect"
    /\ \E o \in connect(role, queue, cn.c, prefetch) :
         LET m == [mg EXCEPT !.connects = @ + 1, !.last = <<"connect", o.err>>,
                             !.chan = IF o.new THEN "stale" ELSE @]
             e == IF o.err # "ok" THEN o.err ELSE "ConnectionExhausted"
             r == on_upstream_error(mg.propagate_error, e) IN
         /\ queue' = o.q
         /\ cn' = Connected(o)
         /\ broker' = BrokerAfter(o.q, o.new)
         /\ IF o.err = "ok" /\ try_yield_more(mg.i)
            THEN /\ mg' = [m EXCEPT !.pc = "fetch", !.i = @ + 1, !.tag = 0]
                 /\ UNCHANGED observed
            ELSE /\ mg' = [m EXCEPT !.pc = r.pc, !.err = r.err,
                                    !.i = IF o.err = "ok" THEN @ + 1 ELSE @]
                 /\ observed' = IF r.pc = "yield_none" THEN Append(observed, NoneValue)
                                ELSE observed
    /\ other' = FALSE
    /\ UNCHANGED <<role, prefetch, life, cl, opvars, delivered, signals>>

\* The consumer asks for the next item (anext / asend(None)).
ConsumerNext ==
    /\ tc.pc = "idle"
    /\ GenSuspended
    /\ signals' = Append(signals, <<"next", "none">>)
    /\ mg' = [mg EXCEPT !.pc = "fetch"]
    /\ cl' = NoClose
    /\ other' = FALSE
    /\ UNCHANGED <<role, prefetch, cn, queue, life, broker, opvars, delivered, observed>>

\* The consumer reports an error (athrow(e)) at a hand-off.
ConsumerThrow ==
    /\ tc.pc = "idle"
    /\ GenSuspended
    /\ \E e \in DownstreamErrors :
         LET r == IF mg.pc = "yield_msg"
                  THEN on_downstream_error(mg.propagate_error, e)
                  ELSE on_error_at_none(mg.propagate_error, e) IN
         /\ signals' = Append(signals, <<"throw", e>>)
         /\ mg' = [mg EXCEPT !.pc = r.pc, !.err = r.err]
         /\ observed' = IF r.pc = "yield_none" THEN Append(observed, NoneValue)
                        ELSE observed
    /\ cl' = NoClose
    /\ other' = FALSE
    /\ UNCHANGED <<role, prefetch, cn, queue, life, broker, opvars, delivered>>

\* The consumer abandons the generator (aclose(), break, garbage collection).
ConsumerClose ==
    /\ tc.pc = "idle"
    /\ GenSuspended
    /\ LET r == on_generator_exit(queue) IN
         /\ mg' = [mg EXCEPT !.pc = r.pc, !.err = r.err]
         /\ queue' = r.q
         /\ broker' = BrokerAfter(r.q, FALSE)
    /\ signals' = Append(signals, <<"close", "none">>)
    /\ cl' = NoClose
    /\ other' = FALSE
    /\ UNCHANGED <<role, prefetch, cn, life, opvars, delivered, observed>>

\* The consumer drops the finished generator.
MgDone ==
    /\ tc.pc = "idle"
    /\ GenTerminal
    /\ mg' = IdleMg
    /\ delivered' = <<>>
    /\ observed' = <<>>
    /\ signals' = <<>>
    /\ other' = FALSE
    /\ UNCHANGED <<role, prefetch, cn, queue, life, cl, broker, opvars>>

\* time.sleep(RETRY_DELAY), lines 297 and 331, is a plain call that blocks the
\* thread of the event loop; it is not an await that hands control back.
sleep_suspends == FALSE

\* An operation of the instance is in progress and suspended: the generator
\* at a hand-off, or an operation in its retry delay if the delay suspends.
LoopFree ==
    \/ TcIdle /\ GenSuspended
    \/ sleep_suspends /\ (tc.pc = "sleep" \/ mg.pc = "ty_sleep")

\* Another task on the same event loop takes a step meanwhile.
OtherTask ==
    /\ LoopFree
    /\ other' = TRUE
    /\ UNCHANGED <<role, prefetch, cn, queue, life, cl, broker, opvars, genvars>>

Next ==
    \/ OtherTask
    \/ Connect
    \/ Close
    \/ StartOp
    \/ OpDone
    \/ TryCallFunc
    \/ TryCallClose
    \/ TryCallSleep
    \/ TryCallConnect
    \/ MgStart
    \/ MgItem
    \/ MgBadItem
    \/ MgStreamError
    \/ MgStreamEnd
    \/ TryYieldClose
    \/ TryYieldSleep
    \/ TryYieldConnect
    \/ ConsumerNext
    \/ ConsumerThrow
    \/ ConsumerClose
    \/ MgDone

Spec == Init /\ [][Next]_vars
----------------------------------------------------------------------------
\* Properties

TcFinished == tc.pc \in {"returned", "raised"} /\ tc.err # "RuntimeError"

\* The broker client's own connection.close(), channel.cancel() or connect
\* call raised during the recovery (AlreadyClosedExcpetion is raised by
\* RabbitMQ.close itself, before any broker call).
RecoveryCallFailed ==
    /\ tc.last[1] \in {"close", "connect"}
    /\ tc.last[2] \notin {"ok", "AlreadyClosedExcpetion"}

\* C1: if the unit of work fails transiently N <= TRY_ATTEMPTS times and then
\* succeeds, the try_call invocation returns that value and raises nothing
\* (stated for the operations invoked on an open connection in which the
\* broker client's close and connect calls of the recovery do not raise).
C1_TransientThenSuccessReturns ==
    (TcFinished /\ tc.live /\ tc.func.final = "ok" /\ ~RecoveryCallFailed)
        => (tc.pc = "returned" /\ tc.result = tc.func.val)

\* C2: the only failures that leave try_call are a fatal channel-level error
\* and ConnectionExhausted (RuntimeError is raised by the operation before
\* try_call is entered); no AlreadyClosed, ClosingFailed or raw connection
\* error surfaces.
C2_OnlyFatalOrExhaustedEscapes ==
    tc.pc = "raised"
        => tc.err \in {"AMQPChannelError", "ConnectionExhausted", "RuntimeError"}

\* C3: when the unit of work fails transiently on every attempt, it is invoked
\* exactly TRY_ATTEMPTS times, try_call fails with ConnectionExhausted, and a
\* close and a connect followed the last failed attempt (stated for the
\* operations invoked on an open connection in which the broker client's
\* close and connect calls of the recovery do not raise).
C3_AllFailExhausts ==
    (TcFinished /\ tc.live /\ tc.func.fails = TRY_ATTEMPTS /\ ~RecoveryCallFailed)
        => /\ tc.calls = TRY_ATTEMPTS
           /\ tc.err = "ConnectionExhausted"
           /\ tc.closes = TRY_ATTEMPTS
           /\ tc.connects = TRY_ATTEMPTS
           /\ tc.last = <<"connect", "ok">>

\* C4: a channel-level error raised by the unit of work (try_call) or by the
\* stream (try_yield) is propagated on that same attempt: it is the last
\* broker-facing step of the invocation, and the only closes and connects
\* made are those of the earlier, transient failures.
C4_FatalPropagatesImmediately ==
    /\ tc.last = <<"func", "AMQPChannelError">>
         => /\ tc.pc = "raised"
            /\ tc.err = "AMQPChannelError"
            /\ tc.closes = tc.calls - 1
            /\ tc.connects = tc.calls - 1
    /\ mg.last = <<"error", "AMQPChannelError">>
         => /\ mg.pc = "raised"
            /\ mg.err = "AMQPChannelError"
            /\ mg.closes = mg.recoveries
            /\ mg.connects = mg.recoveries

\* A fatal error on the second attempt of try_call, after one recovery.
C4_Witness ==
    /\ tc.last = <<"func", "AMQPChannelError">>
    /\ tc.calls = 2
    /\ tc.pc = "raised"

\* The payloads (or "None") handed to the consumer, in order.
Payloads(obs) == [k \in 1..Len(obs) |-> obs[k].data[2]]
IsNone(obs) == [k \in 1..Len(obs) |-> obs[k] = NoneValue]
SignalKinds(sig) == [k \in 1..Len(sig) |-> sig[k][1]]

\* Deliveries A, B, C with propagate_error=False; the consumer answers A with
\* "next", B with an error and everything after with "next"; C is being
\* handed over.
C5_Scenario ==
    /\ ~mg.propagate_error
    /\ mg.pc = "yield_msg"
    /\ Len(delivered) = 3
    /\ Len(signals) >= 2
    /\ signals[1][1] = "next"
    /\ signals[2][1] = "throw"
    /\ \A k \in 3..Len(signals) : signals[k][1] = "next"

\* C5 as claimed: in that scenario the consumer has observed [A, None, C].
C5_ObservedANoneC ==
    C5_Scenario
        => /\ Payloads(observed) = <<"A", "", "C">>
           /\ IsNone(observed) = <<FALSE, TRUE, FALSE>>
           /\ mg.err = "none"

\* C5 as amended: the consumer has observed [A, B, None, C] (B was handed
\* over before the consumer could signal its error; the None sentinel is the
\* answer to that error) and no exception has escaped.
C5_ObservedABNoneC ==
    C5_Scenario
        => /\ Payloads(observed) = <<"A", "B", "", "C">>
           /\ IsNone(observed) = <<FALSE, FALSE, TRUE, FALSE>>
           /\ mg.err = "none"

C5_Witness == C5_Scenario /\ Len(signals) = 3 /\ Len(observed) = 4

\* C6: with propagate_error=False no downstream error ever escapes the
\* generator, at whichever hand-off it is signalled.
C6_NoDownstreamErrorEscapes ==
    ~mg.propagate_error
        => ~(mg.pc = "raised" /\ mg.err \in DownstreamErrors)

\* C7: with propagate_error=True, once the consumer has signalled an error at
\* the hand-off of an item, that same error has left the generator, nothing
\* was handed over after it (every hand-off is one delivery, answered by one
\* signal) and no None sentinel was ever yielded.
C7_ErrorPropagatesAndTerminates ==
    (mg.propagate_error /\ Len(signals) > 0 /\ signals[Len(signals)][1] = "throw")
        => /\ mg.pc = "raised"
           /\ mg.err = signals[Len(signals)][2]
           /\ Len(observed) = Len(signals)
           /\ Len(delivered) = Len(observed)
           /\ \A k \in 1..Len(observed) : observed[k] # NoneValue

\* Deliveries A, B; the error is signalled while processing B.
C7_Witness ==
    /\ mg.propagate_error
    /\ SignalKinds(signals) = <<"next", "throw">>
    /\ Payloads(observed) = <<"A", "B">>
    /\ mg.pc = "raised"

\* The latest step of try_yield (or the conversion) failed and was not
\* recovered: a channel error, a malformed frame, a failing close or connect
\* of the recovery, or the budget used up.
UpstreamFailure ==
    \/ mg.last \in {<<"error", "AMQPChannelError">>, <<"item", "bad">>}
    \/ mg.last[1] \in {"close", "connect"} /\ mg.last[2] # "ok"
    \/ mg.last = <<"connect", "ok">> /\ mg.i = TRY_ATTEMPTS

UpstreamError ==
    IF mg.last = <<"item", "bad">> THEN "AttributeError"
    ELSE IF mg.last = <<"connect", "ok">> THEN "ConnectionExhausted"
    ELSE mg.last[2]

\* C8: an upstream error that try_yield does not recover leaves
\* message_generator for both values of propagate_error: the generator has
\* raised that error, no value (no None sentinel) was handed over for it, and
\* the only close() calls made are those of try_yield's recoveries.
C8_UpstreamErrorPropagates ==
    UpstreamFailure
        => /\ mg.pc = "raised"
           /\ mg.err = UpstreamError
           /\ Len(observed) = Len(signals)
           /\ mg.closes = mg.recoveries

C8_Witness ==
    /\ ~mg.propagate_error
    /\ mg.last = <<"error", "AMQPChannelError">>
    /\ mg.pc = "raised"
    /\ Len(observed) = 1
    /\ mg.closes = 0
    /\ queue.connection = "open"

\* C9: a delivery without frame or without body ends the sequence: the
\* generator has ended without an error, nothing was handed over for it, and
\* no close or connect beyond the completed recoveries was made.
C9_NoMessageEndsSequence ==
    mg.last \in {<<"item", "timeout">>, <<"item", "nobody">>}
        => /\ mg.pc = "ended"
           /\ mg.err = "none"
           /\ Len(observed) = Len(signals)
           /\ mg.closes = mg.recoveries
           /\ mg.connects = mg.recoveries

C9_Witness ==
    /\ mg.last = <<"item", "nobody">>
    /\ mg.pc = "ended"
    /\ Len(observed) = 2
    /\ mg.closes = 0

Abandoned == Len(signals) > 0 /\ signals[Len(signals)][1] = "close"

\* C10: once the consumer has abandoned the generator at a hand-off, the
\* generator is closed without an error and nothing was fetched or handed
\* over after that; the step that closes it leaves connection and channel
\* exactly as they were.
C10_AbandonIsSilent ==
    /\ [](Abandoned
            => /\ mg.pc = "closed"
               /\ mg.err = "none"
               /\ Len(observed) = Len(signals)
               /\ mg.closes = mg.recoveries)
    /\ [][(~Abandoned /\ Abandoned')
            => (queue' = queue /\ delivered' = delivered /\ observed' = observed)]_vars

C10_Witness ==
    /\ Abandoned
    /\ mg.pc = "closed"
    /\ queue.connection = "open"
    /\ Len(observed) = 2
    /\ observed[2] = NoneValue

\* One of the broker calls of the latest close() raised.
PrimitiveFailed(log) == \E k \in 1..Len(log) : log[k][2] # "ok"

\* C11: in every execution of RabbitMQSub.close the consumer is cancelled
\* before the connection is closed: every connection-close step has a cancel
\* step before it (stated for the executions that complete).
C11_CancelBeforeConnectionClose ==
    (role = "sub" /\ cl.err = "ok")
        => \A i \in 1..Len(cl.log) :
             cl.log[i][1] = "connection.close"
                 => \E j \in 1..(i - 1) : cl.log[j][1] = "channel.cancel"

\* C12: for both roles, close() on an instance that was never connected fails
\* with ClosingFailed without a broker call; close() on a connected instance
\* succeeds (when none of its broker calls raises), and the close() that
\* follows a successful one immediately fails with AlreadyClosed.
C12_CloseTwice ==
    cl.by = "caller"
        => /\ cl.pre = NewQueue
                => (cl.err = "ClosingFailedExcpetion" /\ cl.log = <<>>)
           /\ (cl.pre = [connection |-> "open", channel |-> "chan"]
                   /\ ~PrimitiveFailed(cl.log))
                => cl.err = "ok"
           /\ cl.prev = "ok"
                => (cl.err = "AlreadyClosedExcpetion" /\ cl.log = <<>>)

\* A Subscriber closed twice in a row.
C12_Witness ==
    /\ role = "sub"
    /\ cl.by = "caller"
    /\ cl.prev = "ok"
    /\ cl.err = "AlreadyClosedExcpetion"
    /\ life = "closed"

\* C13: when connection.close() or channel.cancel() raises during a close(),
\* by whomever it is called, that close() fails with ClosingFailed: it does
\* not return normally and the raw exception does not escape.
C13_CloseFailureIsClosingFailed ==
    PrimitiveFailed(cl.log) => cl.err = "ClosingFailedExcpetion"

\* channel.cancel() raised after connection.close() went through.
C13_Witness ==
    /\ cl.log = << <<"connection.close", "ok">>, <<"channel.cancel", "AMQPError">> >>
    /\ cl.err = "ClosingFailedExcpetion"

\* C14: an operation invoked before connect fails without a broker call; an
\* operation invoked after a successful close() never returns a value or
\* hands over an item, and never calls connect(): the closed connection
\* stays closed.
C14_NotConnectedFails ==
    /\ tc.life = "new"
         => (tc.pc = "raised" /\ tc.err = "RuntimeError" /\ tc.calls = 0
             /\ tc.closes = 0 /\ tc.connects = 0)
    /\ mg.life = "new"
         => (mg.pc = "raised" /\ mg.err = "RuntimeError" /\ mg.on = "none"
             /\ mg.closes = 0 /\ mg.connects = 0)
    /\ tc.life = "closed"
         => (tc.pc \in {"try", "close", "raised"} /\ tc.connects = 0)
    /\ mg.life = "closed"
         => (mg.pc \in {"fetch", "ty_close", "raised"} /\ mg.connects = 0
             /\ observed = <<>>)
    /\ life = "closed" => queue.connection = "closed"

\* An operation on a closed instance that made its broker call and failed.
C14_Witness ==
    /\ tc.life = "closed"
    /\ tc.pc = "raised"
    /\ tc.calls = 1
    /\ queue.connection = "closed"

\* C15: ack_message / reject_message for identifier k, once its broker call
\* has gone through, leaves no unacknowledged delivery with an identifier up
\* to and including k.
C15_CumulativeAck ==
    [][(/\ tc.op \in {"ack_message", "reject_message"}
        /\ tc.pc = "try"
        /\ tc'.pc = "returned"
        /\ tc.msg_id \in broker.unacked)
          => broker'.unacked = {j \in broker.unacked : j > tc.msg_id}]_vars

IsMessage(m) == m # NoneValue
Messages(obs) == SelectSeq(obs, IsMessage)

\* C16: as long as try_yield has not reconnected, the Messages handed to the
\* consumer are the broker's deliveries to the generator, one Message per
\* delivery and in the same order, each with the delivery's identifier and
\* payload, and the identifiers ascend.
C16_DeliveryOrderPreserved ==
    mg.connects = 0
        => /\ Len(Messages(observed)) = Len(delivered)
           /\ \A k \in 1..Len(delivered) :
                /\ Messages(observed)[k].msg_id = delivered[k].frame[2]
                /\ Messages(observed)[k].data[2] = delivered[k].body[2]
           /\ \A k \in 1..(Len(delivered) - 1) :
                delivered[k].frame[2] < delivered[k + 1].frame[2]

\* Three deliveries handed over, with a None sentinel in between.
C16_Witness ==
    /\ mg.connects = 0
    /\ Len(delivered) = 3
    /\ Len(observed) = 4
    /\ Payloads(Messages(observed)) = <<"A", "B", "C">>

\* C17: while an operation waits out the retry delay, another task of the
\* event loop can take a step.
C17_DelayYieldsControl ==
    (tc.pc = "sleep" \/ mg.pc = "ty_sleep") => ENABLED OtherTask

\* C18: a retry attempt of try_call, and an iteration of try_yield after a
\* reconnect, runs its broker call on a channel of the instance's present
\* connection.
C18_RetryUsesCurrentChannel ==
    /\ (tc.last[1] = "func" /\ tc.connects > 0) => tc.on = "chan"
    /\ (mg.last[1] \in {"item", "error", "end"} /\ mg.connects > 0) => mg.on = "chan"

\* C19: when the stream runs out without an error, try_yield (and with it
\* the generator) ends normally: no close, no reconnect, no error.
C19_StreamEndEndsNormally ==
    mg.ends > 0
        => /\ mg.pc = "ended"
           /\ mg.err = "none"
           /\ mg.closes = mg.streak
           /\ mg.connects = mg.streak

\* C20: ConnectionExhausted leaves try_yield only after TRY_ATTEMPTS
\* connection errors with no item forwarded in between.
C20_BudgetPerResumption ==
    (mg.pc = "raised" /\ mg.err = "ConnectionExhausted") => mg.streak = TRY_ATTEMPTS


\* C21: whenever a connect() has returned, be it the factory's or a reconnect
\* made by try_call or try_yield, the channel now in self.channel is the new
\* one, the queue has been declared through it, and it is in confirm mode for
\* a publisher and carries the prefetch bound given to the factory, as a
\* global bound, for a subscriber.
RoleConfigured(r, c, n) ==
    /\ c.declared
    /\ r = "pub" => c.confirm
    /\ r = "sub" => c.qos = n

C21_RoleConfiguredOnEveryConnect ==
    cn.err = "ok" =>
        /\ queue.channel = "chan"
        /\ RoleConfigured(role, cn.c, prefetch)

\* A subscriber made with a prefetch bound other than the default has
\* reconnected inside try_call or try_yield.
C21_Witness ==
    /\ role = "sub"
    /\ prefetch # 1
    /\ cn.err = "ok"
    /\ tc.last = <<"connect", "ok">> \/ mg.last = <<"connect", "ok">>
    /\ cn.c.qos = prefetch
=============================================================================
